---- MODULE Spec2Model ----
(***************************************************************************)
(* Model of the bilingual used-car front end: the three page components    *)
(* Cars (list), CarDetail (detail) and Home (featured), their locale and   *)
(* fetch effects, the mapping of CMS records and what each page renders.   *)
(*                                                                         *)
(* Text that the code inspects (language tags, titles, numbers in text     *)
(* form) is a sequence of one-character strings; text that the code only   *)
(* stores and shows (messages, specification values) is a TLA+ string.     *)
(***************************************************************************)
EXTENDS Integers, Sequences, FiniteSets, TLC

(***************************************************************************)
(* Bounds of the model.                                                    *)
(***************************************************************************)
\* identifier changes within one mounted detail page
MaxIdChanges == 2

(***************************************************************************)
(* Language tags and URL hints.                                            *)
(***************************************************************************)
EN == <<"e", "n">>
JA == <<"j", "a">>
JAJP == <<"j", "a", "-", "J", "P">>
ENUS == <<"e", "n", "-", "U", "S">>
FR == <<"f", "r">>
\* useParams() yields undefined for a missing segment; the code tests the
\* hint and the identifier by truthiness only, so undefined and "" are one
\* value here.
Absent == <<>>

\* the :lng segment of the URL
Hints == {Absent, EN, JA, JAJP, FR}

\* i18n.language before any page has run its locale effect (detector or
\* configured default of the i18n instance)
InitialLanguages == {EN, JA, ENUS}

\* String.prototype.startsWith
StartsWith(s, p) ==
  /\ Len(s) >= Len(p)
  /\ \A i \in 1..Len(p) : s[i] = p[i]

\* ResolveLocale with English as the default
ResolveLocaleDefaultEn(hint) ==
  IF hint # Absent /\ hint \in {EN, JA} THEN hint ELSE EN

\* lng && ['en', 'ja'].includes(lng) ? lng : 'ja'
ResolveLocale(hint) ==
  IF hint # Absent /\ hint \in {EN, JA} THEN hint ELSE JA

\* const currentLanguage = i18n.language.startsWith('ja') ? 'ja' : 'en'
CurrentLanguage(lang) ==
  IF StartsWith(lang, JA) THEN "ja" ELSE "en"

(***************************************************************************)
(* JavaScript values read from the CMS and the conversions applied to      *)
(* them.  A field of a raw record is undefined, a string or a number.      *)
(***************************************************************************)
Undefined == [k |-> "undefined"]
NaN == [k |-> "NaN"]
Str(s) == [k |-> "str", s |-> s]
Num(n) == [k |-> "num", n |-> n]

\* truthiness of a raw field: undefined, "", 0 and NaN are falsy, an object
\* is truthy
Truthy(v) ==
  CASE v.k = "str" -> v.s # <<>>
    [] v.k = "num" -> v.n # 0
    [] v.k = "obj" -> TRUE
    [] OTHER -> FALSE

Digits == <<"0", "1", "2", "3", "4", "5", "6", "7", "8", "9">>

IsDigit(c) == \E i \in 1..10 : Digits[i] = c

DigitVal(c) == (CHOOSE i \in 1..10 : Digits[i] = c) - 1

\* decimal digits of a natural number
RECURSIVE NatToChars(_)
NatToChars(n) ==
  IF n < 10 THEN <<Digits[n + 1]>>
  ELSE NatToChars(n \div 10) \o <<Digits[(n % 10) + 1]>>

\* String(v) as the argument conversion of parseInt
ToText(v) ==
  CASE v.k = "str" -> v.s
    [] v.k = "num" -> IF v.n < 0 THEN <<"-">> \o NatToChars(-v.n) ELSE NatToChars(v.n)
    [] v.k = "NaN" -> <<"N", "a", "N">>
    [] OTHER -> <<"u", "n", "d", "e", "f", "i", "n", "e", "d">>

RECURSIVE SkipSpaces(_)
SkipSpaces(s) ==
  IF s # <<>> /\ Head(s) = " " THEN SkipSpaces(Tail(s)) ELSE s

\* value of the longest prefix of decimal digits of s, continuing from acc
RECURSIVE DigitPrefix(_, _)
DigitPrefix(s, acc) ==
  IF s # <<>> /\ IsDigit(Head(s))
  THEN DigitPrefix(Tail(s), acc * 10 + DigitVal(Head(s)))
  ELSE acc

\* parseInt(v, 10): leading blanks skipped, optional sign, then the longest
\* digit prefix; NaN when there is no digit
ParseInt(v) ==
  LET t == SkipSpaces(ToText(v))
      neg == t # <<>> /\ Head(t) = "-"
      body == IF t # <<>> /\ Head(t) \in {"-", "+"} THEN Tail(t) ELSE t
  IN IF body = <<>> \/ ~IsDigit(Head(body)) THEN NaN
     ELSE Num(IF neg THEN -DigitPrefix(body, 0) ELSE DigitPrefix(body, 0))

\* digits with a "," before every group of three, counted from the right
RECURSIVE GroupThousands(_)
GroupThousands(ds) ==
  IF Len(ds) <= 3 THEN ds
  ELSE GroupThousands(SubSeq(ds, 1, Len(ds) - 3)) \o <<",">>
         \o SubSeq(ds, Len(ds) - 2, Len(ds))

\* Number.prototype.toLocaleString() of an integer or NaN
ToLocaleString(x) ==
  IF x.k = "NaN" THEN <<"N", "a", "N">>
  ELSE IF x.n < 0 THEN <<"-">> \o GroupThousands(NatToChars(-x.n))
  ELSE GroupThousands(NatToChars(x.n))

KM == <<" ", "k", "m">>
NAKM == <<"N", "/", "A", " ", "k", "m">>

\* FormatMileage with the digits of the number left ungrouped
FormatMileageUngrouped(mileage) ==
  IF ~Truthy(mileage) THEN NAKM
  ELSE ToText(ParseInt(mileage)) \o KM

\* formatMileage of the list page, the detail page and the first Home
FormatMileage(mileage) ==
  IF ~Truthy(mileage) THEN NAKM
  ELSE ToLocaleString(ParseInt(mileage)) \o KM

\* formatMileage of the second Home, with its Number.isNaN test
FormatMileageHome(mileage) ==
  IF ~Truthy(mileage) THEN NAKM
  ELSE IF ParseInt(mileage).k = "NaN" THEN NAKM
  ELSE ToLocaleString(ParseInt(mileage)) \o KM

(***************************************************************************)
(* JSON.parse.  A JSON text is a sequence of tokens: the punctuation       *)
(* "{" "}" ":" ",", the literal "null", GARBAGE for characters that start  *)
(* no JSON token, and any other string t for the quoted string "t".  The   *)
(* grammar covered is: value ::= null | string | object.                   *)
(***************************************************************************)
GARBAGE == "<garbage>"
JsonSyntax == {"{", "}", ":", ",", "null", GARBAGE}

JNull == [k |-> "null"]
JStr(s) == [k |-> "jstr", s |-> s]
JObj(keys, vals) == [k |-> "obj", keys |-> keys, vals |-> vals]

ParseFail == [ok |-> FALSE]
ParseOk(v, rest) == [ok |-> TRUE, v |-> v, rest |-> rest]

\* a member added to an object under construction: a repeated key keeps its
\* first position and takes the later value
PutMember(o, key, v) ==
  IF \E i \in 1..Len(o.keys) : o.keys[i] = key
  THEN JObj(o.keys, [i \in 1..Len(o.vals) |-> IF o.keys[i] = key THEN v ELSE o.vals[i]])
  ELSE JObj(Append(o.keys, key), Append(o.vals, v))

RECURSIVE ParseValue(_)
RECURSIVE ParseMembers(_, _)

ParseValue(ts) ==
  IF ts = <<>> THEN ParseFail
  ELSE IF Head(ts) = "null" THEN ParseOk(JNull, Tail(ts))
  ELSE IF Head(ts) = "{" THEN
    IF Len(ts) >= 2 /\ ts[2] = "}" THEN ParseOk(JObj(<<>>, <<>>), SubSeq(ts, 3, Len(ts)))
    ELSE ParseMembers(Tail(ts), JObj(<<>>, <<>>))
  ELSE IF Head(ts) \in JsonSyntax THEN ParseFail
  ELSE ParseOk(JStr(Head(ts)), Tail(ts))

\* key : value, then "," and more members or the closing "}"
ParseMembers(ts, o) ==
  IF Len(ts) < 3 \/ ts[1] \in JsonSyntax \/ ts[2] # ":" THEN ParseFail
  ELSE LET r == ParseValue(SubSeq(ts, 3, Len(ts)))
       IN IF ~r.ok \/ r.rest = <<>> THEN ParseFail
          ELSE IF Head(r.rest) = "}" THEN ParseOk(PutMember(o, ts[1], r.v), Tail(r.rest))
          ELSE IF Head(r.rest) = "," THEN ParseMembers(Tail(r.rest), PutMember(o, ts[1], r.v))
          ELSE ParseFail

\* JSON.parse(x): x is converted to text first, and an object converts to
\* "[object Object]", which is no JSON text.  ok = FALSE stands for the
\* SyntaxError thrown.
JSONParse(x) ==
  LET text == IF x.k = "str" THEN x.s ELSE <<GARBAGE>>
      r == ParseValue(text)
  IN IF r.ok /\ r.rest = <<>> THEN [ok |-> TRUE, v |-> r.v] ELSE ParseFail

(***************************************************************************)
(* Record mapping.  A raw record has the fields the pages read; a response *)
(* is a rejection of the request or a body whose data member is undefined, *)
(* one raw record (detail) or a list of raw records (list, home).          *)
(***************************************************************************)
\* typeof process !== 'undefined' && process.env.REACT_APP_STRAPI_URL ? ... :
\* 'http://localhost:1337', kept short: the code only concatenates it
StrapiUrl == <<"h", "t", "t", "p", ":", "/", "/", "x">>

List(items) == [k |-> "arr", items |-> items]

\* MapImg without the base URL in front of the path
MapImgRelative(image, base) ==
  IF image.k = "arr" /\ Len(image.items) > 0
  THEN Str(ToText(image.items[1].url))
  ELSE JNull

\* car.image && car.image.length > 0 ? `${strapiUrl}${car.image[0].url}` : null
MapImg(image, base) ==
  IF image.k = "arr" /\ Len(image.items) > 0
  THEN Str(base \o ToText(image.items[1].url))
  ELSE JNull

\* x || fallback
OrElse(x, fallback) == IF Truthy(x) THEN x ELSE fallback

NoDescriptionEn == Str(<<"No description available in English.">>)
\* the Japanese default text of the source, written here in ASCII
NoDescriptionJa == Str(<<"(ja) eigo no setsumei ga riyou dekimasen.">>)

NA == JObj(<<"en", "ja">>, <<JStr("N/A"), JStr("N/A")>>)
DefaultSpecifications ==
  JObj(<<"engine", "transmission", "fuel", "color">>, <<NA, NA, NA, NA>>)

\* MapListCar with the English title in both slots
MapListCarEnglishTitle(car) ==
  [id |-> car.id,
   title |-> [en |-> car.title_en, ja |-> car.title_en],
   price |-> ParseInt(car.price),
   year |-> car.year,
   mileage |-> [en |-> FormatMileage(car.mileage_en), ja |-> FormatMileage(car.mileage_ja)],
   img |-> MapImg(car.image, StrapiUrl)]

\* the record mapped by Cars.fetchCars
MapListCar(car) ==
  [id |-> car.id,
   title |-> [en |-> car.title_en, ja |-> car.title_ja],
   price |-> ParseInt(car.price),
   year |-> car.year,
   mileage |-> [en |-> FormatMileage(car.mileage_en), ja |-> FormatMileage(car.mileage_ja)],
   img |-> MapImg(car.image, StrapiUrl)]

ShortEn == Str(<<"A reliable used car ready for new adventures">>)
\* the Japanese short text of the source, written here in ASCII
ShortJa == Str(<<"(ja) atarashii bouken ni sonaeta shinrai dekiru chuukosha">>)

\* the record mapped by Home.fetchCars; its title member is named Title
MapHomeCar(car) ==
  [id |-> car.id,
   Title |-> [en |-> car.title_en, ja |-> car.title_ja],
   price |-> ParseInt(car.price),
   year |-> car.year,
   mileage |-> [en |-> FormatMileageHome(car.mileage_en),
                ja |-> FormatMileageHome(car.mileage_ja)],
   img |-> MapImg(car.image, StrapiUrl),
   short |-> [en |-> ShortEn, ja |-> ShortJa]]

\* the record mapped by fetchCars of the first Home component of part_001,
\* whose formatMileage has no Number.isNaN test
MapHomeCarFirst(car) ==
  [id |-> car.id,
   Title |-> [en |-> car.title_en, ja |-> car.title_ja],
   price |-> ParseInt(car.price),
   year |-> car.year,
   mileage |-> [en |-> FormatMileage(car.mileage_en),
                ja |-> FormatMileage(car.mileage_ja)],
   img |-> MapImg(car.image, StrapiUrl),
   short |-> [en |-> ShortEn, ja |-> ShortJa]]

\* specifications ? JSON.parse(specifications) : { engine: ..., color: ... }
ResolveSpecifications(specifications) ==
  IF Truthy(specifications) THEN JSONParse(specifications)
  ELSE [ok |-> TRUE, v |-> DefaultSpecifications]

\* the record mapped by CarDetail.fetchCar from response.data.data; ok =
\* FALSE stands for the exception JSON.parse throws
MapDetailCar(d) ==
  LET specs == ResolveSpecifications(d.specifications)
  IN IF ~specs.ok THEN [ok |-> FALSE]
     ELSE [ok |-> TRUE,
           car |-> [id |-> d.id,
                    title |-> [en |-> d.title_en, ja |-> d.title_ja],
                    price |-> ParseInt(d.price),
                    year |-> d.year,
                    mileage |-> [en |-> FormatMileage(d.mileage_en),
                                 ja |-> FormatMileage(d.mileage_ja)],
                    img |-> MapImg(d.image, StrapiUrl),
                    description |-> [en |-> OrElse(d.description_en, NoDescriptionEn),
                                     ja |-> OrElse(d.description_ja, NoDescriptionJa)],
                    specifications |-> specs.v]]

\* response.data.data.map((car) => ({ ... })) of Cars
MapListCars(xs) == [i \in 1..Len(xs) |-> MapListCar(xs[i])]

\* response.data.data.map((car) => ({ ... })) of Home
MapHomeCars(xs) == [i \in 1..Len(xs) |-> MapHomeCar(xs[i])]

\* Slice3 taking the last three elements: slice(-3)
Slice3FromEnd(xs) ==
  SubSeq(xs, IF Len(xs) < 3 THEN 1 ELSE Len(xs) - 2, Len(xs))

\* mappedCars.slice(0, 3)
FeaturedCount == 3
Slice3(xs) == SubSeq(xs, 1, IF Len(xs) < FeaturedCount THEN Len(xs) ELSE FeaturedCount)

(***************************************************************************)
(* Filtering and sorting of the held collection.                           *)
(***************************************************************************)
UpperCase == <<"A", "B", "C", "D", "E", "F", "G", "H", "I", "J", "K", "L", "M",
               "N", "O", "P", "Q", "R", "S", "T", "U", "V", "W", "X", "Y", "Z">>
LowerCase == <<"a", "b", "c", "d", "e", "f", "g", "h", "i", "j", "k", "l", "m",
               "n", "o", "p", "q", "r", "s", "t", "u", "v", "w", "x", "y", "z">>

LowerChar(c) ==
  IF \E i \in 1..26 : UpperCase[i] = c
  THEN LowerCase[CHOOSE i \in 1..26 : UpperCase[i] = c]
  ELSE c

\* String.prototype.toLowerCase
ToLowerCase(s) == [i \in 1..Len(s) |-> LowerChar(s[i])]

\* String.prototype.includes
Includes(s, q) ==
  \E i \in 0..(Len(s) - Len(q)) : SubSeq(s, i + 1, i + Len(q)) = q

RECURSIVE TrimEnd(_)
TrimEnd(s) ==
  IF s # <<>> /\ s[Len(s)] = " " THEN TrimEnd(SubSeq(s, 1, Len(s) - 1)) ELSE s

\* String.prototype.trim
Trim(s) == TrimEnd(SkipSpaces(s))

\* c.title[currentLanguage] || c.title.en
TitleOf(c, lang) == OrElse(c.title[lang], c.title.en)

\* Matches without toLowerCase() on the title
MatchesCaseSensitive(c, lang, q) ==
  LET title == TitleOf(c, lang)
  IN /\ title.k = "str"
     /\ Includes(title.s, ToLowerCase(Trim(q)))

\* title?.toLowerCase().includes(query.trim().toLowerCase()): an undefined
\* title yields undefined, which filter takes as false
Matches(c, lang, q) ==
  LET title == TitleOf(c, lang)
  IN /\ title.k = "str"
     /\ Includes(ToLowerCase(title.s), ToLowerCase(Trim(q)))

\* Array.prototype.filter
RECURSIVE FilterSeq(_, _, _)
FilterSeq(xs, lang, q) ==
  IF xs = <<>> THEN <<>>
  ELSE IF Matches(Head(xs), lang, q)
       THEN <<Head(xs)>> \o FilterSeq(Tail(xs), lang, q)
       ELSE FilterSeq(Tail(xs), lang, q)

\* a - b on mapped numbers; NaN when an operand is no number, and sort
\* takes a NaN comparison as 0
Minus(a, b) == IF a.k = "num" /\ b.k = "num" THEN a.n - b.n ELSE 0

\* Compare with the years of "latest" subtracted the other way round
CompareOldestFirst(a, b, sortKey) ==
  CASE sortKey = "price-low" -> Minus(a.price, b.price)
    [] sortKey = "price-high" -> Minus(b.price, a.price)
    [] sortKey = "latest" -> Minus(a.year, b.year)
    [] OTHER -> 0

\* the comparator of Cars
Compare(a, b, sortKey) ==
  CASE sortKey = "price-low" -> Minus(a.price, b.price)
    [] sortKey = "price-high" -> Minus(b.price, a.price)
    [] sortKey = "latest" -> Minus(b.year, a.year)
    [] OTHER -> 0

\* x placed after the last element of the sorted xs that does not follow it
RECURSIVE InsertSorted(_, _, _)
InsertSorted(xs, x, sortKey) ==
  IF xs = <<>> THEN <<x>>
  ELSE IF Compare(xs[Len(xs)], x, sortKey) > 0
       THEN Append(InsertSorted(SubSeq(xs, 1, Len(xs) - 1), x, sortKey), xs[Len(xs)])
       ELSE Append(xs, x)

\* Array.prototype.sort, a stable sort
RECURSIVE SortBy(_, _)
SortBy(xs, sortKey) ==
  IF xs = <<>> THEN <<>>
  ELSE InsertSorted(SortBy(SubSeq(xs, 1, Len(xs) - 1), sortKey), xs[Len(xs)], sortKey)

\* const filtered = cars.filter(...).sort(...) of Cars
FilteredCars(cs, lang, q, sortKey) == SortBy(FilterSeq(cs, lang, q), sortKey)

\* c.Title[currentLanguage] || c.Title.en of Home
HomeTitleOf(c, lang) == OrElse(c.Title[lang], c.Title.en)

\* the filter callback of Home
HomeMatches(c, lang, q) ==
  LET title == HomeTitleOf(c, lang)
  IN /\ title.k = "str"
     /\ Includes(ToLowerCase(title.s), ToLowerCase(Trim(q)))

\* const filtered = cars.filter(...) of Home
RECURSIVE HomeFilterSeq(_, _, _)
HomeFilterSeq(xs, lang, q) ==
  IF xs = <<>> THEN <<>>
  ELSE IF HomeMatches(Head(xs), lang, q)
       THEN <<Head(xs)>> \o HomeFilterSeq(Tail(xs), lang, q)
       ELSE HomeFilterSeq(Tail(xs), lang, q)

\* (query ? filtered : cars) of Home
FilteredHome(cs, lang, q) == IF q # <<>> THEN HomeFilterSeq(cs, lang, q) ELSE cs

(***************************************************************************)
(* What the CMS can answer.                                                *)
(***************************************************************************)
CarTitle(i) == <<"C", "a", "r", " ">> \o NatToChars(i)
CarTitleJa(i) == <<"K", "u", "r", "u", "m", "a", " ">> \o NatToChars(i)

\* a well-formed specifications mapping in text form
SpecText ==
  Str(<<"{", "engine", ":", "{", "en", ":", "2.0L", ",", "ja", ":", "2.0L", "}", ",",
        "fuel", ":", "{", "en", ":", "Petrol", ",", "ja", ":", "Gasorin", "}", "}">>)
\* the text null
SpecTextNull == Str(<<"null">>)
\* a mapping with a null entry
SpecTextNullEntry == Str(<<"{", "engine", ":", "null", "}">>)
\* a mapping with an entry that is no object
SpecTextPlainEntry == Str(<<"{", "engine", ":", "2.0L", "}">>)
\* text that is no JSON
SpecTextBroken == Str(<<"{", "engine", ":">>)
\* the mapping itself, as a JSON field of the CMS delivers it
SpecObject == JObj(<<"engine">>, <<JObj(<<"en", "ja">>, <<JStr("2.0L"), JStr("2.0L")>>)>>)

SpecPayloads ==
  {Undefined, SpecText, SpecTextNull, SpecTextNullEntry, SpecTextPlainEntry,
   SpecTextBroken, SpecObject}

RawCar(i, specs) ==
  [id |-> i,
   title_en |-> Str(CarTitle(i)),
   title_ja |-> Str(CarTitleJa(i)),
   price |-> Str(NatToChars(i * 1000000)),
   year |-> Num(2020 - (i % 2)),
   mileage_en |-> Str(NatToChars(i * 15000)),
   mileage_ja |-> Str(NatToChars(i * 15000)),
   image |-> List(<<[url |-> Str(<<"/", "u", "/">> \o NatToChars(i))]>>),
   description_en |-> Undefined,
   description_ja |-> Undefined,
   specifications |-> specs]

\* a record whose optional fields the CMS left out
BareCar(i) ==
  [RawCar(i, Undefined) EXCEPT !.title_en = Undefined, !.title_ja = Undefined,
                               !.image = Undefined, !.mileage_ja = Undefined]

DetailRecords(i) == {RawCar(i, sp) : sp \in SpecPayloads} \cup {BareCar(i)}

Collections ==
  {List(<<>>),
   List(<<RawCar(1, Undefined), BareCar(2)>>),
   List(<<RawCar(1, Undefined), RawCar(2, SpecText), RawCar(3, SpecTextBroken),
          RawCar(4, Undefined)>>)}

Rejected == [kind |-> "reject"]
Body(data) == [kind |-> "ok", data |-> data]

\* the settlements of axios.get for a request of page p with identifier i
Responses(p, i) ==
  IF p = "detail"
  THEN {Rejected, Body(Undefined)} \cup {Body(d) : d \in DetailRecords(i)}
  ELSE {Rejected, Body(Undefined)} \cup {Body(c) : c \in Collections}

(***************************************************************************)
(* The state of the application.                                           *)
(***************************************************************************)
VARIABLES
  page,       \* the page component the router has mounted, or "none"
  lng,        \* the :lng segment of the current URL
  id,         \* the :id segment of the current URL (detail), 0 when missing
  language,   \* i18n.language, shared by all pages
  query,      \* useState('') of Cars and Home
  sort,       \* useState('latest') of Cars
  cars,       \* useState([]) of Cars and Home
  car,        \* useState(null) of CarDetail
  loading,    \* useState(true)
  error,      \* useState(null): a message, or NoError
  pending,    \* effects of the last render that have not run yet
  inflight,   \* requests of the mounted instance that have not settled
  issued,     \* requests the mounted instance has issued
  idChanges,  \* identifier changes the mounted instance has seen
  skipped,    \* fetch attempts of the mounted instance without identifier
  handled,    \* the settlement the mounted instance handled last
  newest,     \* the latest-issued request among those it has handled
  crashed,    \* a render threw and React unmounted the tree
  probe       \* a raw record and what a page's mapping makes of it

vars ==
  <<page, lng, id, language, query, sort, cars, car, loading, error,
    pending, inflight, issued, idChanges, skipped, handled, newest, crashed,
    probe>>

Pages == {"cars", "detail", "home"}

\* error is only tested by truthiness and only set to non-empty messages
NoError == <<>>
NoCar == JNull
NoId == 0
\* the identifiers the router hands to the detail page
RouteIds == {NoId, 1, 2}
\* handled before any settlement
NothingHandled == [n |-> 0, id |-> NoId, outcome |-> "none", malformed |-> FALSE]
\* probe while the application runs
NoProbe == [page |-> "none"]

FetchCarsError == <<"Cars fetch nahi hue, Strapi check kar!">>
FetchFeaturedError == <<"Featured cars fetch nahi hue, Strapi check kar!">>
MissingIdError == <<"Car ID nahi mila!">>
\* `Car ${id} fetch nahi hua, Strapi check kar!`
FetchCarError(i) == <<"Car ">> \o NatToChars(i) \o <<" fetch nahi hua, Strapi check kar!">>

(***************************************************************************)
(* The settlement of a request: try { map, set } catch { setError }        *)
(* finally { setLoading(false) }.  st is the component state the handler   *)
(* updates; the result is the state after it.                              *)
(***************************************************************************)
\* FetchCarsSettled with a map callback that deserializes the specifications
\* of every record, as fetchCar does
FetchCarsSettledParsing(resp, st) ==
  IF /\ resp.kind = "ok"
     /\ resp.data # Undefined
     /\ \A i \in 1..Len(resp.data.items) :
          ResolveSpecifications(resp.data.items[i].specifications).ok
  THEN [st EXCEPT !.cars = MapListCars(resp.data.items), !.loading = FALSE]
  ELSE [st EXCEPT !.error = FetchCarsError, !.loading = FALSE]

\* Cars.fetchCars after the await
FetchCarsSettled(resp, st) ==
  IF resp.kind = "ok" /\ resp.data # Undefined
  THEN [st EXCEPT !.cars = MapListCars(resp.data.items), !.loading = FALSE]
  ELSE [st EXCEPT !.error = FetchCarsError, !.loading = FALSE]

\* Home.fetchCars after the await
HomeFetchCarsSettled(resp, st) ==
  IF resp.kind = "ok" /\ resp.data # Undefined
  THEN [st EXCEPT !.cars = Slice3(MapHomeCars(resp.data.items)), !.loading = FALSE]
  ELSE [st EXCEPT !.error = FetchFeaturedError, !.loading = FALSE]

\* FetchCarSettled without its setCar
FetchCarSettledNoSetCar(resp, i, st) ==
  LET m == IF resp.kind = "ok" /\ resp.data # Undefined
           THEN MapDetailCar(resp.data)
           ELSE [ok |-> FALSE]
  IN IF m.ok
     THEN [st EXCEPT !.loading = FALSE]
     ELSE [st EXCEPT !.error = FetchCarError(i), !.loading = FALSE]

\* FetchCarSettled with a catch block that only logs
FetchCarSettledSwallow(resp, i, st) ==
  LET m == IF resp.kind = "ok" /\ resp.data # Undefined
           THEN MapDetailCar(resp.data)
           ELSE [ok |-> FALSE]
  IN IF m.ok
     THEN [st EXCEPT !.car = m.car, !.loading = FALSE]
     ELSE [st EXCEPT !.loading = FALSE]

\* FetchCarSettled with a catch block that keeps the fields mapped before
\* JSON.parse threw
FetchCarSettledPartial(resp, i, st) ==
  LET m == IF resp.kind = "ok" /\ resp.data # Undefined
           THEN MapDetailCar(resp.data)
           ELSE [ok |-> FALSE]
      rest == MapDetailCar([resp.data EXCEPT !.specifications = Undefined]).car
  IN IF m.ok
     THEN [st EXCEPT !.car = m.car, !.loading = FALSE]
     ELSE IF resp.kind = "ok" /\ resp.data # Undefined
          THEN [st EXCEPT !.car = [rest EXCEPT !.specifications = JObj(<<>>, <<>>)],
                          !.error = FetchCarError(i), !.loading = FALSE]
          ELSE [st EXCEPT !.error = FetchCarError(i), !.loading = FALSE]

\* FetchCarSettled with setLoading(false) at the end of the try block
\* instead of in a finally block
FetchCarSettledNoFinally(resp, i, st) ==
  LET m == IF resp.kind = "ok" /\ resp.data # Undefined
           THEN MapDetailCar(resp.data)
           ELSE [ok |-> FALSE]
  IN IF m.ok
     THEN [st EXCEPT !.car = m.car, !.loading = FALSE]
     ELSE [st EXCEPT !.error = FetchCarError(i)]

\* CarDetail.fetchCar after the await, for the request of identifier i
FetchCarSettled(resp, i, st) ==
  LET m == IF resp.kind = "ok" /\ resp.data # Undefined
           THEN MapDetailCar(resp.data)
           ELSE [ok |-> FALSE]
  IN IF m.ok
     THEN [st EXCEPT !.car = m.car, !.loading = FALSE]
     ELSE [st EXCEPT !.error = FetchCarError(i), !.loading = FALSE]

\* FetchCarNoId without its setLoading(false)
FetchCarNoIdKeepsLoading(st) == [st EXCEPT !.error = MissingIdError]

\* CarDetail.fetchCar when the identifier is missing
FetchCarNoId(st) == [st EXCEPT !.error = MissingIdError, !.loading = FALSE]

(***************************************************************************)
(* Rendering.  A view is what a render of the page returns: which branch   *)
(* it took, the message it shows, the links it offers and the listings it  *)
(* shows; "throw" is a render that raised an exception.                    *)
(***************************************************************************)
\* const getLink = (path) => `/${currentLanguage}${path === '/' ? '' : path}`
GetLink(lang, path) == <<"/", lang>> \o (IF path = <<"/">> THEN <<>> ELSE path)

CarsPath == <<"/cars">>
CarPath(c) == <<"/cars/">> \o NatToChars(c.id)

\* o[key] of a parsed value
JGet(o, key) ==
  IF o.k = "obj" /\ \E i \in 1..Len(o.keys) : o.keys[i] = key
  THEN o.vals[CHOOSE i \in 1..Len(o.keys) : o.keys[i] = key]
  ELSE Undefined

JTruthy(v) ==
  CASE v.k = "obj" -> TRUE
    [] v.k = "jstr" -> v.s # ""
    [] OTHER -> FALSE

\* valueObj[currentLanguage] || valueObj.en
SpecShown(valueObj, lang) ==
  IF JTruthy(JGet(valueObj, lang)) THEN JGet(valueObj, lang) ELSE JGet(valueObj, "en")

\* the render of one specification entry throws when valueObj is null (a
\* property read of null) and when the value to show is an object (no valid
\* React child)
SpecEntryThrows(valueObj, lang) ==
  \/ valueObj.k = "null"
  \/ SpecShown(valueObj, lang).k = "obj"

\* Object.entries(car.specifications).map(...): Object.entries(null) throws;
\* the entries of a string are its characters
SpecificationsThrow(specs, lang) ==
  \/ specs.k = "null"
  \/ /\ specs.k = "obj"
     /\ \E i \in 1..Len(specs.vals) : SpecEntryThrows(specs.vals[i], lang)

LoadingView(message) ==
  [view |-> "loading", message |-> message, links |-> {}, items |-> <<>>]
ErrorView(message, links) ==
  [view |-> "error", message |-> message, links |-> links, items |-> <<>>]
MainView(links, items) ==
  [view |-> "main", message |-> <<>>, links |-> links, items |-> items]
ThrowView == [view |-> "throw", message |-> <<>>, links |-> {}, items |-> <<>>]

\* the render of Cars
CarsView(st, lang, q, sortKey) ==
  LET filtered == FilteredCars(st.cars, lang, q, sortKey)
  IN IF st.loading THEN LoadingView(<<"Cars load ho rahe hain...">>)
     ELSE IF st.error # NoError THEN ErrorView(st.error, {})
     ELSE MainView({GetLink(lang, CarPath(filtered[i])) : i \in 1..Len(filtered)}, filtered)

\* the render of Home
HomeView(st, lang, q) ==
  LET shown == FilteredHome(st.cars, lang, q)
  IN IF st.loading THEN LoadingView(<<"Featured cars load ho rahe hain...">>)
     ELSE IF st.error # NoError THEN ErrorView(st.error, {})
     ELSE MainView({GetLink(lang, CarsPath)}
                     \cup {GetLink(lang, CarPath(shown[i])) : i \in 1..Len(shown)},
                   shown)

\* the render of CarDetail
DetailView(st, lang) ==
  IF st.loading THEN LoadingView(<<"Car details load ho rahe hain...">>)
  ELSE IF st.error # NoError \/ st.car = NoCar
       THEN ErrorView(IF st.error # NoError THEN st.error ELSE <<"Car nahi mili!">>,
                      {GetLink(lang, CarsPath)})
  ELSE IF SpecificationsThrow(st.car.specifications, lang) THEN ThrowView
  ELSE MainView({GetLink(lang, CarsPath)}, <<st.car>>)

\* the render of page p in component state st under i18n.language lang
ViewOf(p, st, lang, q, sortKey) ==
  CASE p = "cars" -> CarsView(st, CurrentLanguage(lang), q, sortKey)
    [] p = "home" -> HomeView(st, CurrentLanguage(lang), q)
    [] p = "detail" -> DetailView(st, CurrentLanguage(lang))
    [] OTHER -> MainView({}, <<>>)

State == [cars |-> cars, car |-> car, loading |-> loading, error |-> error]

\* what the screen shows in the current state
View == ViewOf(page, State, language, query, sort)

\* the page state of the specification's state machine
PageState ==
  CASE View.view = "loading" -> "Loading"
    [] View.view = "error" -> "Failed"
    [] OTHER -> "Ready"

(***************************************************************************)
(* Effects and the operations of the application.                          *)
(***************************************************************************)
\* EffectsDue with the fetch effect depending on the hint as well
EffectsDueOnLng(p, lngChanged, idChanged) ==
  (IF lngChanged THEN {"locale", "fetch"} ELSE {})
    \cup (IF p = "detail" /\ idChanged THEN {"fetch"} ELSE {})

\* the effects React schedules after a render in which the hint, the
\* identifier or neither changed: the locale effect has the dependencies
\* [lng, i18n], the fetch effect [] on Cars and Home and [id] on CarDetail
EffectsDue(p, lngChanged, idChanged) ==
  (IF lngChanged THEN {"locale"} ELSE {})
    \cup (IF p = "detail" /\ idChanged THEN {"fetch"} ELSE {})

\* every effect runs after the first render of an instance
EffectsOnMount == {"locale", "fetch"}

\* which outcome of the try block a settlement is
Outcome(p, resp) ==
  IF resp.kind = "reject" THEN "reject"
  ELSE IF resp.data = Undefined THEN "nodata"
  ELSE IF p = "detail" /\ ~MapDetailCar(resp.data).ok THEN "parsethrow"
  ELSE "accepted"

\* a specifications payload that JSON.parse rejects, as text that is no
\* JSON
Malformed(specifications) ==
  /\ Truthy(specifications)
  /\ ~JSONParse(specifications).ok

\* whether the body of resp holds a record with such a payload
HasMalformed(p, resp) ==
  /\ resp.kind = "ok"
  /\ resp.data # Undefined
  /\ IF p = "detail" THEN Malformed(resp.data.specifications)
     ELSE \E i \in 1..Len(resp.data.items) : Malformed(resp.data.items[i].specifications)

\* the continuation of fetchCars / fetchCar of page p after the await
Settled(p, resp, i, st) ==
  CASE p = "cars" -> FetchCarsSettled(resp, st)
    [] p = "home" -> HomeFetchCarsSettled(resp, st)
    [] OTHER -> FetchCarSettled(resp, i, st)

Init ==
  /\ page = "none"
  /\ lng = Absent
  /\ id = NoId
  /\ language \in InitialLanguages
  /\ query = <<>>
  /\ sort = "latest"
  /\ cars = <<>>
  /\ car = NoCar
  /\ loading = TRUE
  /\ error = NoError
  /\ pending = {}
  /\ inflight = {}
  /\ issued = 0
  /\ idChanges = 0
  /\ skipped = 0
  /\ handled = NothingHandled
  /\ newest = 0
  /\ crashed = FALSE
  /\ probe = NoProbe

\* the router mounts page p at /l/... ; the instance mounted before is
\* unmounted, and what its requests settle to no longer reaches any state
Open(p, l, i) ==
  /\ ~crashed
  /\ pending = {}
  /\ p # page
  /\ p # "detail" => i = NoId
  /\ page' = p
  /\ lng' = l
  /\ id' = i
  /\ query' = <<>>
  /\ sort' = "latest"
  /\ cars' = <<>>
  /\ car' = NoCar
  /\ loading' = TRUE
  /\ error' = NoError
  /\ pending' = EffectsOnMount
  /\ inflight' = {}
  /\ issued' = 0
  /\ idChanges' = 0
  /\ skipped' = 0
  /\ handled' = NothingHandled
  /\ newest' = 0
  /\ UNCHANGED <<language, crashed, probe>>

\* the URL changes under the mounted page: same component, new parameters
ChangeParams(l, i) ==
  /\ ~crashed
  /\ page \in Pages
  /\ pending = {}
  /\ <<l, i>> # <<lng, id>>
  /\ page # "detail" => i = id
  /\ i # id => idChanges < MaxIdChanges
  /\ lng' = l
  /\ id' = i
  /\ idChanges' = IF i # id THEN idChanges + 1 ELSE idChanges
  /\ pending' = EffectsDue(page, l # lng, i # id)
  /\ UNCHANGED <<page, language, query, sort, cars, car, loading, error,
                 inflight, issued, skipped, handled, newest, crashed, probe>>

\* the pending effects run, in the order of their declaration
RunEffects ==
  /\ ~crashed
  /\ pending # {}
  /\ LET lang == IF "locale" \in pending THEN ResolveLocale(lng) ELSE language
         fetch == "fetch" \in pending
         skip == fetch /\ page = "detail" /\ id = NoId
         new == IF skip THEN FetchCarNoId(State) ELSE State
     IN /\ language' = lang
        /\ error' = new.error
        /\ loading' = new.loading
        /\ skipped' = IF skip THEN skipped + 1 ELSE skipped
        /\ inflight' = IF fetch /\ ~skip
                       THEN inflight \cup {[n |-> issued + 1, id |-> id]}
                       ELSE inflight
        /\ issued' = IF fetch /\ ~skip THEN issued + 1 ELSE issued
        /\ crashed' = (ViewOf(page, new, lang, query, sort).view = "throw")
  /\ pending' = {}
  /\ UNCHANGED <<page, lng, id, query, sort, cars, car, idChanges, handled, newest,
                 probe>>

\* request r of the mounted instance settles with resp
Settle(r, resp) ==
  /\ ~crashed
  /\ r \in inflight
  /\ LET new == Settled(page, resp, r.id, State)
     IN /\ cars' = new.cars
        /\ car' = new.car
        /\ loading' = new.loading
        /\ error' = new.error
        /\ crashed' = (ViewOf(page, new, language, query, sort).view = "throw")
  /\ inflight' = inflight \ {r}
  /\ handled' = [n |-> r.n, id |-> r.id, outcome |-> Outcome(page, resp),
                  malformed |-> HasMalformed(page, resp)]
  /\ newest' = IF r.n > newest THEN r.n ELSE newest
  /\ UNCHANGED <<page, lng, id, language, query, sort, pending, issued,
                 idChanges, skipped, probe>>

Next ==
  \/ \E p \in Pages, l \in Hints, i \in RouteIds : Open(p, l, i)
  \/ \E l \in Hints, i \in RouteIds : ChangeParams(l, i)
  \/ RunEffects
  \/ \E r \in inflight : \E resp \in Responses(page, r.id) : Settle(r, resp)

Spec == Init /\ [][Next]_vars

(***************************************************************************)
(* One raw record through the map callback of each page: the record is     *)
(* drawn from the values the CMS can put in its fields, and a page maps    *)
(* it once.                                                                *)
(***************************************************************************)
MileageInputs ==
  {Undefined, Str(<<>>), Num(0), Str(<<"0">>), Num(80000),
   Str(<<"4", "5", "0", "0", "0">>), Str(<<"a", "b", "c">>)}

PriceInputs ==
  {Undefined, Str(<<"4", "2", "0", "0", "0", "0", "0">>), Num(3500000),
   Str(<<"a", "b", "c">>), Str(<<"-", "5">>)}

\* the texts of a record: both locales, English only, Japanese empty, none
TextInputs ==
  {[title_en |-> Str(CarTitle(3)), title_ja |-> Str(CarTitleJa(3)),
    description_en |-> Str(<<"Clean">>), description_ja |-> Str(<<"Kirei">>)],
   [title_en |-> Str(CarTitle(3)), title_ja |-> Undefined,
    description_en |-> Str(<<"Clean">>), description_ja |-> Undefined],
   [title_en |-> Str(CarTitle(3)), title_ja |-> Str(<<>>),
    description_en |-> Undefined, description_ja |-> Str(<<>>)],
   [title_en |-> Undefined, title_ja |-> Undefined,
    description_en |-> Undefined, description_ja |-> Undefined]}

ImagePath(i) == Str(<<"/", "u", "/">> \o NatToChars(i))
\* no image field, an empty list, one image, two images
ImageInputs ==
  {Undefined, List(<<>>), List(<<[url |-> ImagePath(3)]>>),
   List(<<[url |-> ImagePath(3)], [url |-> ImagePath(4)]>>)}

\* the record of the specification's end-to-end scenario; its Japanese
\* title is written here in ASCII
CivicRecord ==
  [id |-> 3,
   title_en |-> Str(<<"H", "o", "n", "d", "a", " ", "C", "i", "v", "i", "c">>),
   title_ja |-> Str(<<"H", "o", "n", "d", "a", " ", "S", "h", "i", "b", "i", "k", "k", "u">>),
   price |-> Str(<<"4", "2", "0", "0", "0", "0", "0">>),
   year |-> Num(2019),
   mileage_en |-> Str(<<"4", "5", "0", "0", "0">>),
   mileage_ja |-> Str(<<"4", "5", "0", "0", "0">>),
   image |-> List(<<[url |-> Str(<<"/", "u", "p", "l", "o", "a", "d", "s", "/", "c", "i", "v", "i", "c", ".", "j", "p", "g">>)]>>),
   description_en |-> Undefined,
   description_ja |-> Undefined,
   specifications |-> Undefined]

RawInputs ==
  {CivicRecord} \cup
  {[id |-> 3,
    title_en |-> t.title_en,
    title_ja |-> t.title_ja,
    price |-> p,
    year |-> Num(2019),
    mileage_en |-> m,
    mileage_ja |-> m,
    image |-> img,
    description_en |-> t.description_en,
    description_ja |-> t.description_ja,
    specifications |-> sp] :
     t \in TextInputs, p \in PriceInputs, m \in MileageInputs,
     img \in ImageInputs, sp \in SpecPayloads}

\* what the map callback of page p makes of one raw record; ok = FALSE when
\* it throws
MappedBy(p, raw) ==
  CASE p = "cars" -> [ok |-> TRUE, car |-> MapListCar(raw)]
    [] p = "home" -> [ok |-> TRUE, car |-> MapHomeCar(raw)]
    [] p = "home-first" -> [ok |-> TRUE, car |-> MapHomeCarFirst(raw)]
    [] OTHER -> MapDetailCar(raw)

\* the components with a map callback: the three pages and the first Home
Mappers == Pages \cup {"home-first"}

appVars ==
  <<page, lng, id, language, query, sort, cars, car, loading, error,
    pending, inflight, issued, idChanges, skipped, handled, newest, crashed>>

InitMap ==
  /\ page = "none"
  /\ lng = Absent
  /\ id = NoId
  /\ language = EN
  /\ query = <<>>
  /\ sort = "latest"
  /\ cars = <<>>
  /\ car = NoCar
  /\ loading = TRUE
  /\ error = NoError
  /\ pending = {}
  /\ inflight = {}
  /\ issued = 0
  /\ idChanges = 0
  /\ skipped = 0
  /\ handled = NothingHandled
  /\ newest = 0
  /\ crashed = FALSE
  /\ probe \in {[page |-> "none", raw |-> r] : r \in RawInputs}

\* the map callback of page p applied to the record
MapRecord(p) ==
  /\ probe.page = "none"
  /\ probe' = [page |-> p, raw |-> probe.raw, out |-> MappedBy(p, probe.raw)]
  /\ UNCHANGED appVars

NextMap == \E p \in Mappers : MapRecord(p)

SpecMap == InitMap /\ [][NextMap]_vars

\* the record has been mapped and the callback did not throw
Mapped == probe.page \in Pages /\ probe.out.ok

(***************************************************************************)
(* The list and home pages with their search box and sort menu: the visitor *)
(* types a query and picks a sort key on the rendered page.                *)
(***************************************************************************)
\* a record with an English title only
EnglishOnlyCar(i) == [RawCar(i, Undefined) EXCEPT !.title_ja = Undefined]
\* a record with a Japanese title only
JapaneseOnlyCar(i) == [RawCar(i, Undefined) EXCEPT !.title_en = Undefined]

\* a record whose price the CMS left out
PricelessCar(i) == [RawCar(i, Undefined) EXCEPT !.price = Undefined]

ListCollections ==
  Collections
    \cup {List(<<RawCar(1, Undefined), EnglishOnlyCar(2), BareCar(3),
                 JapaneseOnlyCar(4)>>),
          List(<<EnglishOnlyCar(2), RawCar(1, Undefined)>>),
          List(<<RawCar(3, Undefined), PricelessCar(2), RawCar(1, Undefined)>>)}

ListResponses == {Rejected, Body(Undefined)} \cup {Body(c) : c \in ListCollections}

\* what the visitor types into the search box
Queries ==
  {<<>>, <<" ">>, <<"c", "a", "r">>, <<" ", "K", "U", "R", "U", " ">>, <<"2">>,
   <<"z">>}

\* the options of the sort menu
SortKeys == {"latest", "price-low", "price-high"}

\* RenderCars with sort called on cars itself: cars.sort(...).filter(...)
RenderCarsSortingHeld(cs, lang, q, sortKey) ==
  LET sorted == SortBy(cs, sortKey)
  IN [held |-> sorted, shown |-> FilterSeq(sorted, lang, q)]

\* the arrays after the render of Cars computed filtered: filter reads cars
\* and returns a new array, and sort reorders that new array in place
RenderCars(cs, lang, q, sortKey) ==
  LET kept == FilterSeq(cs, lang, q)
  IN [held |-> cs, shown |-> SortBy(kept, sortKey)]

\* the arrays after the render of Home computed filtered
RenderHome(cs, lang, q) == [held |-> cs, shown |-> HomeFilterSeq(cs, lang, q)]

\* the array the state variable cars refers to after page p has rendered
HeldAfterRender(p, cs, lang, q, sortKey) ==
  IF p = "cars" THEN RenderCars(cs, lang, q, sortKey).held
  ELSE RenderHome(cs, lang, q).held

\* SetQuery with a fetch effect that depends on the query
SetQueryRefetch(q) ==
  /\ page \in {"cars", "home"}
  /\ pending = {}
  /\ View.view = "main"
  /\ q # query
  /\ query' = q
  /\ cars' = HeldAfterRender(page, cars, CurrentLanguage(language), q, sort)
  /\ pending' = {"fetch"}
  /\ UNCHANGED <<page, lng, id, language, sort, car, loading, error,
                 inflight, issued, idChanges, skipped, handled, newest, crashed,
                 probe>>

\* onChange of the search box: setQuery(e.target.value), and the render
\* that follows
SetQuery(q) ==
  /\ page \in {"cars", "home"}
  /\ pending = {}
  /\ View.view = "main"
  /\ q # query
  /\ query' = q
  /\ cars' = HeldAfterRender(page, cars, CurrentLanguage(language), q, sort)
  /\ UNCHANGED <<page, lng, id, language, sort, car, loading, error, pending,
                 inflight, issued, idChanges, skipped, handled, newest, crashed,
                 probe>>

\* onChange of the sort menu: setSort(e.target.value), and the render that
\* follows
SetSort(k) ==
  /\ page = "cars"
  /\ pending = {}
  /\ View.view = "main"
  /\ k # sort
  /\ sort' = k
  /\ cars' = HeldAfterRender(page, cars, CurrentLanguage(language), query, k)
  /\ UNCHANGED <<page, lng, id, language, query, car, loading, error, pending,
                 inflight, issued, idChanges, skipped, handled, newest, crashed,
                 probe>>

NextList ==
  \/ \E p \in {"cars", "home"}, l \in Hints : Open(p, l, NoId)
  \/ \E l \in Hints : ChangeParams(l, id)
  \/ RunEffects
  \/ \E r \in inflight : \E resp \in ListResponses : Settle(r, resp)
  \/ \E q \in Queries : SetQuery(q)
  \/ \E k \in SortKeys : SetSort(k)

SpecList == Init /\ [][NextList]_vars

\* the listing c is among those the page shows
Shown(c) == \E j \in 1..Len(View.items) : View.items[j] = c

(***************************************************************************)
(* Properties.                                                             *)
(***************************************************************************)
Mounted == page \in Pages

\* C1: once the locale effect has run for the current hint, i18n.language
\* is "en" exactly when the hint is "en", and "ja" for every other hint
\* (absent, "ja", "ja-JP", "fr"); an unsupported hint never gives English.
C1_LocaleResolution ==
  (Mounted /\ "locale" \notin pending) =>
    language = (IF lng = EN THEN EN ELSE JA)

C1_Witness ==
  /\ Mounted
  /\ pending = {}
  /\ lng = FR
  /\ language = JA

\* C2 (as claimed): on the detail page, while the fetch for the current
\* identifier issued after an identifier change has not settled, the page
\* is in Loading.
C2_LoadingOnIdChange ==
  (page = "detail" /\ ~crashed /\ idChanges > 0
     /\ [n |-> issued, id |-> id] \in inflight) =>
    PageState = "Loading"

\* C3: on the detail page, when the settlement handled last is the accepted
\* response of a request issued before one already handled (a stale
\* response) and it was for another identifier than the current one, the
\* page holds the listing of that stale request.
C3_StaleResponseApplied ==
  (page = "detail" /\ handled.outcome = "accepted" /\ handled.n < newest
     /\ handled.id # id) =>
    (car # NoCar /\ car.id = handled.id /\ ~loading)

C3_Witness ==
  /\ page = "detail"
  /\ handled.outcome = "accepted"
  /\ handled.n < newest
  /\ id \notin {NoId, handled.id}
  /\ inflight = {}
  /\ pending = {}
  /\ error = NoError
  /\ View.view = "main"
  /\ View.items[1].id = handled.id

\* C4 (as claimed): a mounted page instance has at most one fetch
\* outstanding at every moment.
C4_AtMostOneOutstanding == Mounted => Cardinality(inflight) <= 1

\* C5: after a settlement that is a rejected request, a body without the
\* record (or the collection), or a specifications payload JSON.parse
\* throws on, the page has a message, loading is false and the page is in
\* Failed.
C5_ErrorsEndInFailed ==
  (Mounted /\ handled.outcome \in {"reject", "nodata", "parsethrow"}) =>
    (error # NoError /\ ~loading /\ PageState = "Failed")

C5_Witness ==
  /\ page = "detail"
  /\ handled.outcome = "parsethrow"
  /\ PageState = "Failed"
  /\ View.message = FetchCarError(handled.id)

\* C6 (as claimed): no render of a page that reached Ready throws.
C6_RenderNeverThrows ==
  (Mounted /\ PageState = "Ready") => (View.view # "throw" /\ ~crashed)

\* C7: when the detail page has run its fetch effect without an identifier
\* it is in Failed with a message and loading false, and no request for a
\* missing identifier is in flight; entered without identifier, it has
\* issued no request at all.
C7_MissingIdentifier ==
  (page = "detail" /\ id = NoId /\ "fetch" \notin pending) =>
    /\ PageState = "Failed"
    /\ error # NoError
    /\ ~loading
    /\ \A r \in inflight : r.id # NoId
    /\ idChanges = 0 => (issued = 0 /\ inflight = {} /\ error = MissingIdError)

C7_Witness ==
  /\ page = "detail"
  /\ id = NoId
  /\ pending = {}
  /\ idChanges = 0
  /\ issued = 0
  /\ View.view = "error"
  /\ View.message = MissingIdError

\* C8 (as claimed): in Failed, on each page, no listing is rendered and the
\* error view offers a link.
C8_FailedOffersRecovery ==
  (Mounted /\ PageState = "Failed") => (View.items = <<>> /\ View.links # {})

\* C9 (as claimed): once the effects have run, the requests an instance has
\* issued number its mount plus its identifier changes.
C9_RequestsEqualMountsPlusChanges ==
  (Mounted /\ "fetch" \notin pending) => issued = 1 + idChanges

\* C9 (amended): once the effects have run, the requests an instance has
\* issued number its mount plus its identifier changes (none on the list
\* and home pages) minus the attempts made without identifier, which issue
\* no request; so no request follows a failed fetch without a mount or an
\* identifier change.
C9_NoAutomaticRetry ==
  (Mounted /\ "fetch" \notin pending) =>
    /\ issued + skipped = 1 + idChanges
    /\ page # "detail" => (idChanges = 0 /\ skipped = 0)

C9_Witness ==
  /\ page = "detail"
  /\ pending = {}
  /\ skipped > 0
  /\ issued > 0
  /\ handled.outcome = "reject"
  /\ inflight = {}

\* C10 (as claimed): the message of the Failed state follows the active
\* locale: when the locale changes while the page stays in Failed with the
\* same error, the message shown changes.
C10_MessageFollowsLocale ==
  [][(/\ Mounted
      /\ page' = page
      /\ PageState = "Failed"
      /\ (PageState = "Failed")'
      /\ error' = error
      /\ CurrentLanguage(language') # CurrentLanguage(language))
       => View'.message # View.message]_vars


\* the listings CarDetail can hold: none, or the complete mapping of a record
CompleteListings ==
  {NoCar} \cup {MapDetailCar(d).car :
                  d \in {x \in UNION {DetailRecords(i) : i \in RouteIds \ {NoId}} :
                           MapDetailCar(x).ok}}

\* C11 (as claimed): on the detail page, after the settlement of a record
\* whose specifications payload fails to deserialize, the failure is confined
\* to the specifications field: the page has not crashed, is not Failed, and
\* holds the other fields of that listing.
C11_FieldScopedFailure ==
  (page = "detail" /\ handled.malformed) =>
    /\ ~crashed
    /\ PageState = "Ready"
    /\ car # NoCar
    /\ car.id = handled.id

\* C11 (amended): on the detail page, after the settlement of a record whose
\* specifications payload fails to deserialize, nothing of that record is
\* stored (the page holds no listing or a complete earlier one, never a
\* partial one), the whole page is Failed with an error message and shows
\* no listing, and no render has thrown.
C11_MalformedFailsPage ==
  (page = "detail" /\ handled.malformed) =>
    /\ ~crashed
    /\ car \in CompleteListings
    /\ PageState = "Failed"
    /\ error # NoError
    /\ View.items = <<>>

C11_Witness ==
  /\ page = "detail"
  /\ handled.malformed
  /\ handled.outcome = "parsethrow"
  /\ car = NoCar
  /\ ~loading
  /\ error = FetchCarError(1)

\* C12: on the list and home pages, after the settlement of a collection
\* that holds a record whose specifications text fails to deserialize, the
\* page is Ready, no render has thrown, and every other record of that
\* collection (on the home page: of its first three) is held as mapped by
\* the page and is shown.
C12_CollectionSurvivesMalformed ==
  (page \in {"cars", "home"} /\ handled.malformed) =>
    /\ PageState = "Ready"
    /\ ~crashed
    /\ \E c \in Collections :
         /\ HasMalformed(page, Body(c))
         /\ \A i \in 1..Len(c.items) :
              (/\ ~Malformed(c.items[i].specifications)
               /\ page = "home" => i <= FeaturedCount) =>
                /\ \E j \in 1..Len(cars) :
                     cars[j] = (IF page = "cars" THEN MapListCar(c.items[i])
                                ELSE MapHomeCar(c.items[i]))
                /\ \E j \in 1..Len(View.items) : View.items[j].id = c.items[i].id

C12_Witness ==
  /\ page = "cars"
  /\ handled.malformed
  /\ ~loading
  /\ error = NoError
  /\ Len(cars) = 4
  /\ Len(View.items) = 4

\* a mileage that is absent (undefined or ""), the number zero, or not
\* parseable as an integer
NoMileage(v) == v \in {Undefined, Str(<<>>), Num(0)} \/ ParseInt(v) = NaN

\* C13 (as claimed): on every page, the mapped mileage of a record whose
\* mileage is absent, zero or not parseable as an integer (such as "abc")
\* is exactly "N/A km", in both locales.
C13_NoMileageGivesNA ==
  (Mapped /\ NoMileage(probe.raw.mileage_en)) =>
    /\ probe.out.car.mileage.en = NAKM
    /\ probe.out.car.mileage.ja = NAKM

\* C14 (as claimed): on every page the mapped price is a non-negative
\* integer, and a raw price that cannot be parsed (absent, "abc") maps to 0.
C14_PriceNonNegativeInteger ==
  Mapped =>
    /\ probe.out.car.price.k = "num"
    /\ probe.out.car.price.n >= 0
    /\ probe.raw.price \in {Undefined, Str(<<"a", "b", "c">>)} =>
         probe.out.car.price = Num(0)

\* the title pair of a mapped listing; Home names the member Title
MappedTitle(p, c) == IF p = "home" THEN c.Title ELSE c.title

\* C15 (as claimed): on every page each bilingual field of the mapped
\* listing (title, mileage, description, short, every specification value)
\* has an en and a ja member, and the ja member is never undefined, also
\* when the CMS omitted the Japanese field.
C15_JapaneseNeverUndefined ==
  Mapped =>
    LET c == probe.out.car
    IN /\ MappedTitle(probe.page, c).ja # Undefined
       /\ Len(c.mileage.ja) > 0
       /\ probe.page = "detail" => c.description.ja # Undefined
       /\ probe.page = "home" => c.short.ja # Undefined
       /\ (probe.page = "detail" /\ c.specifications.k = "obj") =>
            \A i \in 1..Len(c.specifications.vals) :
              JGet(c.specifications.vals[i], "ja") # Undefined

C18_ResolutionMatchesReference ==
  probe.page = "detail" =>
    LET sp == probe.raw.specifications
    IN /\ sp.k = "obj" =>
            probe.out.ok /\ probe.out.car.specifications = sp
       /\ sp = Undefined =>
            probe.out.ok /\ probe.out.car.specifications = DefaultSpecifications
       /\ (sp.k = "str" /\ JSONParse(sp).ok) =>
            probe.out.ok /\ probe.out.car.specifications = JSONParse(sp).v

\* the text s holds the text q at some position
Occurs(q, s) ==
  \E i \in 1..(Len(s) + 1) :
    \A k \in 1..Len(q) : i + k - 1 <= Len(s) /\ s[i + k - 1] = q[k]

\* the title pair of a held listing of the mounted page
HeldTitle(c) == MappedTitle(page, c)

\* a query is typed into a rendered list or home page
Searching ==
  /\ page \in {"cars", "home"}
  /\ View.view = "main"
  /\ Trim(query) # <<>>

Count(xs, x) == Cardinality({i \in 1..Len(xs) : xs[i] = x})

IsPermutation(xs, ys) ==
  /\ Len(xs) = Len(ys)
  /\ \A i \in 1..Len(ys) : Count(xs, ys[i]) = Count(ys, ys[i])

\* C20 (as claimed): on the list page, with an empty or whitespace-only
\* query and any sort key, the listings shown are a permutation of the held
\* collection, also when listings lack a title in one or both locales.
C20_EmptyQueryKeepsAll ==
  (page = "cars" /\ View.view = "main" /\ Trim(query) = <<>>) =>
    IsPermutation(View.items, cars)

\* the position of the listing c in the held collection
HeldAt(c) == CHOOSE k \in 1..Len(cars) : cars[k] = c

\* C21: on the list page with sort key "latest", the listings shown are in
\* descending order of year, and listings of the same year are shown in the
\* order they have in the held (fetched) collection.
C21_LatestDescendingStable ==
  (page = "cars" /\ View.view = "main" /\ sort = "latest") =>
    \A i, j \in 1..Len(View.items) :
      i < j =>
        /\ View.items[i].year.n >= View.items[j].year.n
        /\ View.items[i].year.n = View.items[j].year.n
             => HeldAt(View.items[i]) < HeldAt(View.items[j])

C21_Witness ==
  /\ page = "cars"
  /\ View.view = "main"
  /\ sort = "latest"
  /\ Len(cars) = 4
  /\ <<cars[1].id, cars[2].id, cars[3].id, cars[4].id>> = <<1, 2, 3, 4>>
  /\ Len(View.items) = 4
  /\ <<View.items[1].id, View.items[2].id, View.items[3].id, View.items[4].id>>
       = <<2, 4, 1, 3>>

\* C22 (as claimed): on the list page, with sort key "price-low" the
\* listings shown are in ascending order of price and with "price-high" in
\* descending order of price, and they are exactly the held listings that
\* pass the title filter.
C22_PriceOrder ==
  (page = "cars" /\ View.view = "main" /\ sort \in {"price-low", "price-high"}) =>
    /\ \A i \in 1..Len(cars) : Shown(cars[i]) <=> Matches(cars[i], CurrentLanguage(language), query)
    /\ Len(View.items) = Cardinality({i \in 1..Len(cars) : Shown(cars[i])})
    /\ \A i, j \in 1..Len(View.items) :
         i < j =>
           /\ View.items[i].price.k = "num"
           /\ View.items[j].price.k = "num"
           /\ IF sort = "price-low"
              THEN View.items[i].price.n <= View.items[j].price.n
              ELSE View.items[i].price.n >= View.items[j].price.n

\* C23: a change of the query or of the sort key, with the filtering and
\* sorting of the render that follows it, leaves the held collection as it
\* was fetched: the same listings in the same order.
C23_HeldCollectionNotMutated ==
  [][(page' = page /\ (query' # query \/ sort' # sort)) => cars' = cars]_vars

C23_Witness ==
  /\ page = "cars"
  /\ View.view = "main"
  /\ sort = "price-high"
  /\ query = <<"c", "a", "r">>
  /\ Len(cars) = 4
  /\ <<cars[1].id, cars[2].id, cars[3].id, cars[4].id>> = <<1, 2, 3, 4>>
  /\ Len(View.items) = 4
  /\ View.items[1].id = 4

\* C26: on the list and home pages the held collection changes only when a
\* response is accepted (and is emptied by a new mount); a change of the
\* query, the sort key or the URL locale leaves the held collection and
\* every listing in it as they are, issues no request and schedules no
\* fetch.
C26_HeldOnlyReplacedByFetch ==
  [][page' = page =>
       /\ (query' # query \/ sort' # sort \/ lng' # lng) =>
            /\ cars' = cars
            /\ issued' = issued
            /\ inflight' = inflight
            /\ "fetch" \notin pending'
       /\ cars' # cars =>
            /\ handled' # handled
            /\ handled'.outcome = "accepted"]_vars

C26_Witness ==
  /\ page = "home"
  /\ lng = EN
  /\ language = EN
  /\ query = <<"2">>
  /\ issued = 1
  /\ inflight = {}
  /\ Len(cars) = 3
  /\ Len(View.items) = 1

\* C24: on the home page, after a collection has been accepted, the held
\* (featured) listings are the mappings of the first three records of that
\* collection in fetched order, or of all of them when it has fewer,
\* whatever the query is.
C24_FeaturedAreFirstThree ==
  (page = "home" /\ handled.outcome = "accepted") =>
    \E c \in ListCollections :
      LET n == IF Len(c.items) < 3 THEN Len(c.items) ELSE 3
      IN /\ Len(cars) = n
         /\ \A i \in 1..n : cars[i] = MapHomeCar(c.items[i])

C24_Witness ==
  /\ page = "home"
  /\ handled.outcome = "accepted"
  /\ query = <<"z">>
  /\ Len(cars) = 3
  /\ <<cars[1].id, cars[2].id, cars[3].id>> = <<1, 2, 3>>
  /\ cars[3].Title.en = Str(CarTitle(3))

\* C25: on every page the record of the end-to-end scenario (id 3, both
\* titles, price "4200000", year 2019, both mileages "45000", one image
\* "/uploads/civic.jpg") is mapped to id 3, the two titles unchanged, price
\* 4200000, year 2019, mileage "45,000 km" in both locales and image URL
\* "http://x/uploads/civic.jpg".
C25_EndToEnd ==
  (Mapped /\ probe.raw = CivicRecord) =>
    LET c == probe.out.car
    IN /\ c.id = 3
       /\ MappedTitle(probe.page, c) =
            [en |-> Str(<<"H", "o", "n", "d", "a", " ", "C", "i", "v", "i", "c">>),
             ja |-> Str(<<"H", "o", "n", "d", "a", " ", "S", "h", "i", "b", "i", "k", "k", "u">>)]
       /\ c.price = Num(4200000)
       /\ c.year = Num(2019)
       /\ c.mileage = [en |-> <<"4", "5", ",", "0", "0", "0", " ", "k", "m">>,
                       ja |-> <<"4", "5", ",", "0", "0", "0", " ", "k", "m">>]
       /\ c.img = Str(<<"h", "t", "t", "p", ":", "/", "/", "x", "/", "u", "p", "l", "o", "a", "d", "s", "/", "c", "i", "v", "i", "c", ".", "j", "p", "g">>)

C25_Witness ==
  /\ Mapped
  /\ probe.raw = CivicRecord
  /\ probe.page = "detail"
  /\ probe.out.car.price = Num(4200000)
  /\ probe.out.car.mileage.ja = <<"4", "5", ",", "0", "0", "0", " ", "k", "m">>

\* the members the claim compares
Common(c) ==
  [id |-> c.id, price |-> c.price, year |-> c.year, mileage |-> c.mileage,
   img |-> c.img]

\* C29 (as claimed): whichever component maps a raw record (list page,
\* detail page, Home, the first Home), the id, price, year, mileage pair and
\* image URL it produces are those every other component produces for the
\* same record, also for the mileage "abc".
C29_PagesMapIdentically ==
  (probe.page \in Mappers /\ probe.out.ok) =>
    \A q \in Mappers :
      MappedBy(q, probe.raw).ok =>
        Common(MappedBy(q, probe.raw).car) = Common(probe.out.car)

\* C27 (as claimed): on the detail page, when every request has settled and
\* the one handled last is the most recently issued one, was for the
\* current identifier and was accepted, the page is Ready and shows that
\* listing, whatever happened to earlier attempts of the instance.
C27_ReadyAfterLatestSuccess ==
  (/\ page = "detail"
   /\ ~crashed
   /\ pending = {}
   /\ inflight = {}
   /\ issued > 0
   /\ handled.n = issued
   /\ handled.id = id
   /\ handled.outcome = "accepted") =>
    /\ PageState = "Ready"
    /\ View.items = <<car>>
    /\ car.id = id

\* C28 (as claimed): whenever a page shows listings or language-prefixed
\* links, the language that selects the titles and prefixes the links is
\* the locale resolved from the current URL hint.
C28_RenderedLocaleIsResolved ==
  (Mounted /\ ~crashed /\ (View.items # <<>> \/ View.links # {})) =>
    CurrentLanguage(language) = CurrentLanguage(ResolveLocale(lng))

\* C30: once a page instance has handled a settlement (accepted, rejected,
\* without data, or with a mapping that threw) or has skipped a fetch for
\* want of an identifier, loading is false; loading is true only while
\* the effects of the mount have not run or a request is in flight.
C30_SettledLeavesLoading ==
  Mounted =>
    /\ (handled.outcome # "none" \/ skipped > 0) => ~loading
    /\ loading => (pending # {} \/ inflight # {})

C30_Witness ==
  /\ page = "detail"
  /\ handled.outcome = "parsethrow"
  /\ inflight = {}
  /\ ~loading
  /\ PageState = "Failed"

====
